---- MODULE Spec2Model ----
(***************************************************************************)
(* Last Hand Standing bot: one chat's GameState, its players' piles, the   *)
(* round action log, and the inline keyboards still displayed in the       *)
(* players' private chats.  Every command handler and every callback       *)
(* branch of handle_callback is one action.                                *)
(*                                                                         *)
(* Modelled part of CARD_CATALOG: the seven starter cards, CURSE, and the  *)
(* common/uncommon cards TURBO_TIME, TORNADO, GAMBLE, PROTECTION with the  *)
(* upgraded ids UPGRADE_MAP gives the modelled cards.                      *)
(* PlayerState.blocks, cards_played_this_round and                         *)
(* cards_discarded_this_round are written but never read by the program    *)
(* and are left out.                                                       *)
(***************************************************************************)
EXTENDS Integers, Sequences, FiniteSets, TLC

\* ------------------------------------------------------------------ bounds
\* /nextround calls accepted
MaxRound == 1
\* playcard presses accepted
MaxPlays == 2
\* length of the action log
MaxActions == 3
\* /resolve calls processed
MaxResolves == 2
\* commands outside the round loop: /reward, /camp, /remove, /upgrade,
\* a repeated /startgame, Done presses, and refused card presses
MaxExtras == 1
\* cards chosen (or skipped) on draft and camp keyboards
MaxPresses == 1
\* camp menu buttons pressed
MaxMenus == 1
\* seeds of the random generator
NumSeeds == 1
\* outcomes of random.sample per call
NumSamples == 1

\* pending extra cards and pending energy bonus of a player between two rounds
MaxPending == 2

MaxBonus == 1

\* the largest n of a draw_cards(p, n) call
MaxDraw == 6

\* --------------------------------------------------------------- constants
NoTarget == 0
BaseEnergy == 3
BaseHand == 5
OfferSize == 3

Users == {1, 2, 3}
Creators == {1}

\* ----------------------------------------------------------------- catalog
STARTER_DECK_DEFAULT ==
    << "BASE_VOTE", "BASE_VOTE", "BASE_VOTE", "BASE_VOTE", "BLOCK_1",
       "ASSIST_ALLY", "BLOCK_ALLY", "PEEK", "SURVIVE", "WEAKEN" >>

\* catalog order of the modelled common/uncommon ids
Pool == << "TURBO_TIME", "PROTECTION", "TORNADO", "GAMBLE" >>

Cards ==
    { "CURSE", "BASE_VOTE", "BLOCK_1", "ASSIST_ALLY", "BLOCK_ALLY", "PEEK",
      "SURVIVE", "WEAKEN", "TURBO_TIME", "PROTECTION", "TORNADO", "GAMBLE",
      "BASE_VOTE_UG", "BLOCK_1_UG", "ASSIST_ALLY_UG", "SURVIVE_UG",
      "QUICK_DRAW", "BALANCE", "BACKPACK", "ESCAPE", "BRING_IT_ON", "FLIP" }

\* the catalog's "cost": None (unplayable), "X", or an integer
CostIsNone(c) == c = "CURSE"

CostIsX(c) == c = "TORNADO"

card_cost(c) ==
    CASE c \in {"TURBO_TIME", "BACKPACK", "ESCAPE"} -> 0
      [] c \in {"PROTECTION"} -> 2
      [] OTHER -> 1

target_mode(c) ==
    CASE c \in {"BLOCK_1", "SURVIVE", "TURBO_TIME", "BLOCK_1_UG", "SURVIVE_UG",
                 "ESCAPE", "BRING_IT_ON", "FLIP"} -> "self"
      [] c \in {"CURSE", "GAMBLE", "QUICK_DRAW", "BALANCE", "BACKPACK"} -> "none"
      [] c \in {"PROTECTION"} -> "any"
      [] OTHER -> "other"

card_has_retain(c) == c \in {"PROTECTION"}

\* "add a curse card to your draw pile" in the description
DescAddsCurse(c) == c \in {"TURBO_TIME"}

UPGRADE_MAP ==
    [c \in {"BASE_VOTE", "BLOCK_1", "ASSIST_ALLY", "SURVIVE"} |->
        CASE c = "BASE_VOTE" -> "BASE_VOTE_UG"
          [] c = "BLOCK_1" -> "BLOCK_1_UG"
          [] c = "ASSIST_ALLY" -> "ASSIST_ALLY_UG"
          [] OTHER -> "SURVIVE_UG"]

VOTE_CARDS_SIMPLE ==
    [c \in {"BASE_VOTE", "BASE_VOTE_UG"} |-> IF c = "BASE_VOTE" THEN 1 ELSE 2]

BLOCK_CARDS_SIMPLE ==
    [c \in {"BLOCK_1", "BLOCK_1_UG", "SURVIVE", "SURVIVE_UG", "PROTECTION",
             "BRING_IT_ON", "FLIP", "ESCAPE"} |->
        CASE c \in {"BLOCK_1", "FLIP", "ESCAPE"} -> 1
          [] c = "PROTECTION" -> 3
          [] c = "SURVIVE_UG" -> 3
          [] OTHER -> 2]

\* ------------------------------------------------------------ list helpers
RemoveAt(s, i) == SubSeq(s, 1, i - 1) \o SubSeq(s, i + 1, Len(s))

Contains(s, c) == \E i \in 1..Len(s) : s[i] = c

\* list.index(c): the first position holding c
IndexOf(s, c) == CHOOSE i \in 1..Len(s) : s[i] = c /\ \A j \in 1..(i - 1) : s[j] # c

Rot(s, k) == SubSeq(s, k + 1, Len(s)) \o SubSeq(s, 1, k)

\* random.shuffle of player u's list under the generator seed k: the permutations
\* explored are rotations of the list, one per seed and player
Shuffle(s, k, u) == IF s = << >> THEN s ELSE Rot(s, (3 * (k + u)) % Len(s))

\* ------------------------------------------------------------------- piles
\* sd is the seed of the random generator
\* variant: the reshuffle copies the discard pile without emptying it
draw_one_keeps_discard(r, sd) ==
    LET q == IF r.deck = << >> /\ r.discard # << >>
             THEN [r EXCEPT !.deck = Shuffle(r.discard, sd, r.user_id)]
             ELSE r
    IN IF q.deck # << >>
       THEN [q EXCEPT !.hand = Append(q.hand, q.deck[Len(q.deck)]),
                      !.deck = SubSeq(q.deck, 1, Len(q.deck) - 1)]
       ELSE q

draw_one(r, sd) ==
    LET q == IF r.deck = << >> /\ r.discard # << >>
             THEN [r EXCEPT !.deck = Shuffle(r.discard, sd, r.user_id), !.discard = << >>]
             ELSE r
    IN IF q.deck # << >>
       THEN [q EXCEPT !.hand = Append(q.hand, q.deck[Len(q.deck)]),
                      !.deck = SubSeq(q.deck, 1, Len(q.deck) - 1)]
       ELSE q

\* variant: the loop stops after the first card
draw_cards_once(r, n, sd) == IF n <= 0 THEN r ELSE draw_one(r, sd)

RECURSIVE draw_cards(_, _, _)
draw_cards(r, n, sd) ==
    IF n <= 0 THEN r ELSE draw_cards(draw_one(r, sd), n - 1, sd)

RECURSIVE discard_random(_, _)
discard_random(r, count) ==
    IF count <= 0 \/ r.hand = << >> THEN { r }
    ELSE UNION { discard_random([r EXCEPT !.hand = RemoveAt(r.hand, i),
                                          !.discard = Append(r.discard, r.hand[i])],
                                count - 1) : i \in 1..Len(r.hand) }

add_curse_to_draw_pile(r) == [r EXCEPT !.discard = Append(r.discard, "CURSE")]

\* ---------------------------------------------------- apply_immediate_effect
\* cards of the draw list whose description holds a "draw N cards" pattern
DescDrawCount(c) ==
    CASE c = "BALANCE" -> 3
      [] c \in {"QUICK_DRAW", "FLIP"} -> 2
      [] c \in {"BACKPACK", "ESCAPE", "BRING_IT_ON"} -> 1
      [] OTHER -> 0

InDrawList(c) ==
    c \in {"GAMBLE", "TURBO_TIME", "QUICK_DRAW", "BALANCE", "BACKPACK", "BRING_IT_ON", "FLIP", "ESCAPE"}

RECURSIVE DiscardHand(_)
DiscardHand(r) ==
    IF r.hand = << >> THEN r
    ELSE DiscardHand([r EXCEPT !.hand = SubSeq(r.hand, 1, Len(r.hand) - 1),
                               !.discard = Append(r.discard, r.hand[Len(r.hand)])])

EffectDraw(r, c, sd) ==
    IF InDrawList(c) THEN draw_cards(r, DescDrawCount(c), sd) ELSE r

\* BALANCE: "draw 3 cards" in the description, then one random discard
EffectBalance(r, c, sd) ==
    IF c = "BALANCE"
    THEN LET q == draw_cards(r, 3, sd)
         IN IF q.hand # << >> THEN discard_random(q, 1) ELSE { q }
    ELSE { r }

\* BACKPACK: no "draw 2 cards" in the description: draw 1, then one random discard
EffectBackpack(r, c, sd) ==
    IF c = "BACKPACK"
    THEN LET q == draw_cards(r, 1, sd)
         IN IF q.hand # << >> THEN discard_random(q, 1) ELSE { q }
    ELSE { r }

\* ESCAPE and BRING_IT_ON draw 1; FLIP, without "draw 3 cards", draws 2
EffectBlockDraw(r, c, sd) ==
    CASE c \in {"ESCAPE", "BRING_IT_ON"} -> draw_cards(r, 1, sd)
      [] c = "FLIP" -> draw_cards(r, 2, sd)
      [] OTHER -> r

EffectGamble(r, c, sd) ==
    IF c \in {"GAMBLE"} THEN draw_cards(DiscardHand(r), Len(r.hand), sd) ELSE r

\* variant: the card gains 3 energy
EffectEnergyThree(r, c) ==
    IF c \in {"TURBO_TIME"} THEN [r EXCEPT !.energy = r.energy + 3] ELSE r

EffectEnergy(r, c) ==
    IF c \in {"TURBO_TIME"} THEN [r EXCEPT !.energy = r.energy + 2] ELSE r

EffectCurse(r, c) ==
    IF DescAddsCurse(c) THEN add_curse_to_draw_pile(r) ELSE r

EffectSurvive(r, c) ==
    IF c \in {"SURVIVE", "SURVIVE_UG"} /\ r.hand # << >> THEN discard_random(r, 1) ELSE { r }

\* the PlayerState values the call can end in (discard_random picks any hand index)
apply_immediate_effect(r, c, sd) ==
    LET balanced == EffectBalance(EffectDraw(r, c, sd), c, sd)
        packed == UNION { EffectBackpack(q, c, sd) : q \in balanced }
    IN UNION { EffectSurvive(EffectCurse(EffectEnergy(
                   EffectBlockDraw(EffectGamble(q, c, sd), c, sd), c), c), c) : q \in packed }

\* p.discard.append(cid); del p.hand[card_index]  (i is the 1-based position).
\* When the effect left the hand shorter than i the del raises IndexError after
\* the append, and the handler stops there.
DelRaises(r, i) == i > Len(r.hand)

DiscardPlayed(r, c, i) ==
    LET q == [r EXCEPT !.discard = Append(r.discard, c)]
    IN IF DelRaises(q, i) THEN q ELSE [q EXCEPT !.hand = RemoveAt(q.hand, i)]

\* the PlayerState values a play of hand[i] = c can end in, after the energy debit
PlayOutcomes(r, c, i, sd) == { DiscardPlayed(q, c, i) : q \in apply_immediate_effect(r, c, sd) }

\* ------------------------------------------------------------------- state
VARIABLES
    seed,           \* the seed of the process's random generator
    exists,         \* chat id in GAMES
    host,           \* GameState.host_id
    round_number,
    joining_open,
    phase,
    players,        \* GameState.players: user id -> PlayerState
    actions,        \* GameState.actions
    reward_offers,  \* GameState.reward_offers: user id -> offered ids
    registry,       \* PLAYER_TO_GAME: the user ids registered to this chat
    menus,          \* user id -> number of displayed hand menus (play / info / done buttons)
    pickers,        \* displayed "Choose a target" keyboards
    assists,        \* displayed delegate keyboards of ASSIST_ALLY
    rewardMsgs,     \* displayed draft keyboards
    campMenus,      \* users with a displayed camp menu (upgrade / remove)
    campPicks,      \* displayed camp pick keyboards
    plays,          \* playcard presses accepted
    resolves,       \* /resolve calls processed
    extras,         \* commands outside the round loop processed
    presses,        \* cards chosen (or skipped) on draft and camp keyboards
    chosen,         \* camp menu buttons pressed
    refills,        \* times the players' energy was refilled: /startgame and /nextround calls accepted
    winner,         \* the player /resolve announced as the last hand standing (0: none)
    refused,        \* the host command last answered with "Only the host can ..." ("": none)
    round0          \* round_number of the game in the initial state

gameVars == << exists, host, round_number, joining_open, phase, players, actions, reward_offers >>
kbdVars == << menus, pickers, assists, rewardMsgs, campMenus, campPicks >>
cntVars == << plays, resolves, extras, presses, chosen, refills >>
vars == << seed, gameVars, registry, kbdVars, cntVars, winner, refused, round0 >>

NewPlayer(u) ==
    [ user_id |-> u, alive |-> TRUE, deck |-> << >>, discard |-> << >>, hand |-> << >>,
      energy_max |-> BaseEnergy, energy |-> BaseEnergy, blocks |-> 0,
      votes_cast_this_round |-> 0, votes_received_this_round |-> 0,
      next_round_extra_cards |-> 0, next_round_energy_bonus |-> 0,
      retained_last_round |-> {},
      turn_done |-> FALSE, draft_done |-> FALSE, camp_done |-> FALSE ]

Action(src, cid, tgt, x) == [ source_id |-> src, card_id |-> cid, target_id |-> tgt, x_value |-> x ]

Joined == DOMAIN players

\* variant: eliminated players counted as alive
list_all_players == Joined

list_alive_players == { u \in Joined : players[u].alive }

Init ==
    /\ seed \in 0..(NumSeeds - 1)
    /\ exists = FALSE
    /\ host = 0
    /\ round_number = 0
    /\ joining_open = TRUE
    /\ phase = "none"
    /\ players = << >>
    /\ actions = << >>
    /\ reward_offers = [u \in Users |-> {}]
    /\ registry = {}
    /\ menus = [u \in Users |-> 0]
    /\ pickers = {}
    /\ assists = {}
    /\ rewardMsgs = {}
    /\ campMenus = {}
    /\ campPicks = {}
    /\ plays = 0
    /\ resolves = 0
    /\ extras = 0
    /\ presses = 0
    /\ chosen = 0
    /\ refills = 0
    /\ winner = 0
    /\ refused = ""
    /\ round0 = 0

\* the host check that opens every host command
IsHostAny(a) == TRUE

IsHost(a) == a = host

HostCommands == { "startgame", "nextround", "resolve", "reward", "camp", "endgame" }

\* a host command called by another user: the reply, and the early return
host_refuse(a, cmd) ==
    /\ exists
    /\ ~IsHost(a)
    /\ refused = "" /\ extras < MaxExtras
    /\ refused' = cmd
    /\ extras' = extras + 1
    /\ UNCHANGED << seed, gameVars, registry, kbdVars, plays, resolves, presses, chosen, refills,
                    winner, round0 >>

\* ------------------------------------------------------------------- lobby
newgame(u) ==
    /\ ~exists /\ phase = "none"
    /\ exists' = TRUE
    /\ host' = u
    /\ round_number' = 0
    /\ joining_open' = TRUE
    /\ phase' = "lobby"
    /\ players' = << >>
    /\ actions' = << >>
    /\ reward_offers' = [v \in Users |-> {}]
    /\ UNCHANGED << seed, registry, kbdVars, cntVars, winner, refused, round0 >>

\* /newgame in a chat that already has a game: GAMES[chat.id] is replaced by
\* a new GameState of the caller; PLAYER_TO_GAME and the keyboards already
\* sent stay as they are
newgame_again(u) ==
    /\ exists
    /\ extras < MaxExtras
    /\ host' = u
    /\ round_number' = 0
    /\ joining_open' = TRUE
    /\ phase' = "lobby"
    /\ players' = << >>
    /\ actions' = << >>
    /\ reward_offers' = [v \in Users |-> {}]
    /\ extras' = extras + 1
    /\ UNCHANGED << seed, exists, registry, kbdVars, plays, resolves, presses, chosen, refills,
                    winner, refused, round0 >>

join(u) ==
    /\ exists
    /\ joining_open
    /\ u \notin Joined
    /\ \A v \in Users : v < u => v \in Joined
    /\ players' = [v \in Joined \cup {u} |-> IF v = u THEN NewPlayer(u) ELSE players[v]]
    /\ registry' = registry \cup {u}
    /\ UNCHANGED << seed, exists, host, round_number, joining_open, phase, actions, reward_offers,
                    kbdVars, cntVars, winner, refused, round0 >>

StartedPlayerKeepsPiles(u) ==
    [players[u] EXCEPT !.deck = Shuffle(STARTER_DECK_DEFAULT, seed, u),
                       !.energy_max = BaseEnergy, !.energy = BaseEnergy, !.blocks = 0,
                       !.turn_done = FALSE, !.draft_done = FALSE, !.camp_done = FALSE,
                       !.next_round_extra_cards = 0, !.next_round_energy_bonus = 0]

StartedPlayer(u) ==
    [players[u] EXCEPT !.deck = Shuffle(STARTER_DECK_DEFAULT, seed, u),
                       !.discard = << >>, !.hand = << >>,
                       !.energy_max = BaseEnergy, !.energy = BaseEnergy, !.blocks = 0,
                       !.turn_done = FALSE, !.draft_done = FALSE, !.camp_done = FALSE,
                       !.next_round_extra_cards = 0, !.next_round_energy_bonus = 0]

startgame(a) ==
    /\ exists
    /\ joining_open \/ extras < MaxExtras
    /\ IsHost(a)
    /\ Cardinality(Joined) >= 2
    /\ joining_open' = FALSE
    /\ round_number' = 0
    /\ phase' = "lobby"
    /\ players' = [u \in Joined |-> StartedPlayer(u)]
    /\ extras' = IF joining_open THEN extras ELSE extras + 1
    /\ refills' = refills + 1
    /\ UNCHANGED << seed, exists, host, actions, reward_offers, registry, kbdVars,
                    plays, resolves, presses, chosen, winner, refused, round0 >>

\* --------------------------------------------------------------- /nextround
\* variant: the retained cards are not kept
RetainedNone(h) == << >>

Retained(h) == SelectSeq(h, card_has_retain)

NotRetained(h) == SelectSeq(h, LAMBDA c : ~card_has_retain(c))

\* variant: the banked energy bonus is not paid out
RoundEnergyNoBonus(r) == BaseEnergy

RoundEnergy(r) == BaseEnergy + r.next_round_energy_bonus

NextRoundPlayer(u) ==
    LET r == players[u]
        q == [r EXCEPT !.retained_last_round = { r.hand[i] : i \in { j \in 1..Len(r.hand) : card_has_retain(r.hand[j]) } },
                       !.discard = r.discard \o NotRetained(r.hand),
                       !.hand = Retained(r.hand),
                       !.blocks = 0,
                       !.votes_cast_this_round = 0,
                       !.votes_received_this_round = 0,
                       !.turn_done = FALSE, !.draft_done = FALSE, !.camp_done = FALSE,
                       !.energy_max = RoundEnergy(r),
                       !.energy = RoundEnergy(r),
                       !.next_round_energy_bonus = 0,
                       !.next_round_extra_cards = 0]
    IN draw_cards(q, BaseHand + r.next_round_extra_cards, seed)

\* variant: a round begins whatever the number of alive players
EnoughToContinueAlways == TRUE

\* lines 1933-1936: "Not enough players alive to continue."
EnoughToContinue == Cardinality(list_alive_players) >= 2

nextround(a) ==
    /\ exists
    /\ round_number < round0 + MaxRound
    /\ IsHost(a)
    /\ EnoughToContinue
    /\ round_number' = round_number + 1
    /\ phase' = "playing"
    /\ actions' = << >>
    /\ players' = [u \in Joined |-> IF players[u].alive THEN NextRoundPlayer(u) ELSE players[u]]
    /\ menus' = [u \in Users |-> IF u \in list_alive_players THEN menus[u] + 1 ELSE menus[u]]
    /\ refills' = refills + 1
    /\ UNCHANGED << seed, exists, host, joining_open, reward_offers, registry,
                    pickers, assists, rewardMsgs, campMenus, campPicks,
                    plays, resolves, extras, presses, chosen, winner, refused, round0 >>

\* ------------------------------------------------------ callback: playcard
\* lines 2708-2724: the energy a play of cost c debits, or -1 when it is refused
\* variant: an integer cost is debited without the "Not enough energy" check
EnergySpentUnchecked(r, cid) ==
    IF CostIsX(cid) THEN (IF r.energy <= 0 THEN -1 ELSE r.energy)
    ELSE card_cost(cid)

EnergySpent(r, cid) ==
    IF CostIsX(cid) THEN (IF r.energy <= 0 THEN -1 ELSE r.energy)
    ELSE (IF r.energy < card_cost(cid) THEN -1 ELSE card_cost(cid))

XValueZero(r, cid) == 0

XValue(r, cid) == IF CostIsX(cid) THEN r.energy ELSE 0

OtherAlive(u) == { v \in list_alive_players : v # u }

\* the checks of lines 2686-2724 all pass for hand index idx (0-based)
PlayAccepted(u, idx) ==
    /\ exists
    /\ u \in Joined
    /\ players[u].alive
    /\ idx >= 0 /\ idx < Len(players[u].hand)
    /\ ~CostIsNone(players[u].hand[idx + 1])
    /\ EnergySpent(players[u], players[u].hand[idx + 1]) >= 0

\* one of the checks fails: the hand menu is replaced by the refusal text
playcard_reject(u, idx) ==
    /\ exists
    /\ menus[u] > 0
    /\ ~PlayAccepted(u, idx)
    /\ extras < MaxExtras
    /\ menus' = [menus EXCEPT ![u] = menus[u] - 1]
    /\ extras' = extras + 1
    /\ UNCHANGED << seed, gameVars, registry, pickers, assists, rewardMsgs, campMenus, campPicks,
                    plays, resolves, presses, chosen, refills, winner, refused, round0 >>

\* target mode self / none, or no other player alive: the Action is recorded at once
playcard_now(u, idx) ==
    LET r == players[u]
        cid == r.hand[idx + 1]
        paid == [r EXCEPT !.energy = r.energy - EnergySpent(r, cid)]
        tgt == IF target_mode(cid) = "self" THEN u ELSE NoTarget
    IN /\ menus[u] > 0
       /\ PlayAccepted(u, idx)
       /\ plays < MaxPlays /\ Len(actions) < MaxActions
       /\ target_mode(cid) \in {"self", "none"} \/ OtherAlive(u) = {}
       /\ actions' = Append(actions, Action(u, cid, tgt, XValue(r, cid)))
       /\ \E q \in PlayOutcomes(paid, cid, idx + 1, seed) :
             players' = [players EXCEPT ![u] = q]
       /\ plays' = plays + 1
       /\ UNCHANGED << seed, exists, host, round_number, joining_open, phase, reward_offers,
                       registry, kbdVars, resolves, extras, presses, chosen, refills, winner, refused, round0 >>

\* any other target mode: the energy is debited and the menu becomes a target keyboard
playcard_ask(u, idx) ==
    LET r == players[u]
        cid == r.hand[idx + 1]
    IN /\ menus[u] > 0
       /\ PlayAccepted(u, idx)
       /\ plays < MaxPlays
       /\ target_mode(cid) \notin {"self", "none"}
       /\ OtherAlive(u) # {}
       /\ players' = [players EXCEPT ![u].energy = r.energy - EnergySpent(r, cid)]
       /\ menus' = [menus EXCEPT ![u] = menus[u] - 1]
       /\ pickers' = pickers \cup
             { [ player_id |-> u, card_index |-> idx, x_value |-> XValue(r, cid),
                 targets |-> OtherAlive(u), card |-> cid, spent |-> EnergySpent(r, cid),
                 sent_at |-> refills ] }
       /\ plays' = plays + 1
       /\ UNCHANGED << seed, exists, host, round_number, joining_open, phase, actions, reward_offers,
                       registry, assists, rewardMsgs, campMenus, campPicks,
                       resolves, extras, presses, chosen, refills, winner, refused, round0 >>

\* -------------------------------------------------------- callback: target
\* variant: the source of the press is not required to be alive
TargetValidDeadSource(k, t) ==
    /\ k.player_id \in Joined
    /\ t \in Joined /\ players[t].alive
    /\ k.card_index < Len(players[k.player_id].hand)

TargetValid(k, t) ==
    /\ k.player_id \in Joined /\ players[k.player_id].alive
    /\ t \in Joined /\ players[t].alive
    /\ k.card_index < Len(players[k.player_id].hand)

\* "Invalid source or target." / "Invalid card.": the keyboard is replaced by text
target_reject(k, t) ==
    /\ exists
    /\ k \in pickers /\ t \in k.targets
    /\ ~TargetValid(k, t)
    /\ pickers' = pickers \ {k}
    /\ UNCHANGED << seed, gameVars, registry, menus, assists, rewardMsgs, campMenus, campPicks,
                    cntVars, winner, refused, round0 >>

\* ASSIST_ALLY: the card is discarded and the delegate gets a keyboard; no Action yet
target_assist(k, t) ==
    LET u == k.player_id
        r == players[u]
        cid == r.hand[k.card_index + 1]
    IN /\ exists
       /\ k \in pickers /\ t \in k.targets
       /\ TargetValid(k, t)
       /\ cid \in {"ASSIST_ALLY", "ASSIST_ALLY_UG"}
       /\ players' = [players EXCEPT ![u] = [r EXCEPT !.discard = Append(r.discard, cid),
                                                      !.hand = RemoveAt(r.hand, k.card_index + 1)]]
       /\ assists' = assists \cup
             { [ giver_id |-> u, delegate_id |-> t, x_value |-> k.x_value, card |-> cid,
                 targets |-> list_alive_players ] }
       /\ pickers' = pickers \ {k}
       /\ menus' = [menus EXCEPT ![u] = menus[u] + 1]
       /\ UNCHANGED << seed, exists, host, round_number, joining_open, phase, actions, reward_offers,
                       registry, rewardMsgs, campMenus, campPicks, cntVars, winner, refused, round0 >>

\* every other card: the Action is recorded with the chosen target
target_play(k, t) ==
    LET u == k.player_id
        r == players[u]
        cid == r.hand[k.card_index + 1]
    IN /\ exists
       /\ k \in pickers /\ t \in k.targets
       /\ TargetValid(k, t)
       /\ cid \notin {"ASSIST_ALLY", "ASSIST_ALLY_UG"}
       /\ Len(actions) < MaxActions
       /\ actions' = Append(actions, Action(u, cid, t, k.x_value))
       /\ \E q \in apply_immediate_effect(r, cid, seed) :
             /\ players' = [players EXCEPT ![u] = DiscardPlayed(q, cid, k.card_index + 1)]
             \* the hand view is refreshed only when the del did not raise
             /\ IF DelRaises(q, k.card_index + 1)
                THEN UNCHANGED << pickers, menus >>
                ELSE /\ pickers' = pickers \ {k}
                     /\ menus' = [menus EXCEPT ![u] = menus[u] + 1]
       /\ UNCHANGED << seed, exists, host, round_number, joining_open, phase, reward_offers,
                       registry, assists, rewardMsgs, campMenus, campPicks, cntVars, winner, refused, round0 >>

\* ------------------------------------------------- callback: assist_target
AssistValid(k, t) ==
    /\ k.giver_id \in Joined /\ k.delegate_id \in Joined /\ t \in Joined
    /\ players[k.giver_id].alive /\ players[k.delegate_id].alive /\ players[t].alive

assist_target(k, t) ==
    /\ exists
    /\ k \in assists /\ t \in k.targets
    /\ IF AssistValid(k, t)
       THEN /\ Len(actions) < MaxActions
            /\ actions' = Append(actions, Action(k.giver_id, k.card, t, k.x_value))
       ELSE UNCHANGED actions
    /\ assists' = assists \ {k}
    /\ UNCHANGED << seed, exists, host, round_number, joining_open, phase, players, reward_offers,
                    registry, menus, pickers, rewardMsgs, campMenus, campPicks, cntVars, winner, refused, round0 >>

\* ---------------------------------------------------------- callback: done
done(u) ==
    /\ exists
    /\ extras < MaxExtras
    /\ menus[u] > 0
    /\ u \in Joined
    /\ players' = [players EXCEPT ![u].turn_done = TRUE]
    /\ menus' = [menus EXCEPT ![u] = menus[u] - 1]
    /\ extras' = extras + 1
    /\ UNCHANGED << seed, exists, host, round_number, joining_open, phase, actions, reward_offers,
                    registry, pickers, assists, rewardMsgs, campMenus, campPicks,
                    plays, resolves, presses, chosen, refills, winner, refused, round0 >>

\* ---------------------------------------------------------------- /resolve
Max(a, b) == IF a >= b THEN a ELSE b

\* what one Action adds to votes_on[t] (lines 2033-2035, 2045-2048)
VoteAdd(act, t) ==
    IF act.target_id = NoTarget \/ act.target_id # t THEN 0
    ELSE (IF act.card_id \in DOMAIN VOTE_CARDS_SIMPLE THEN VOTE_CARDS_SIMPLE[act.card_id] ELSE 0)
         + (IF act.card_id = "ASSIST_ALLY" THEN 1 ELSE 0)
         + (IF act.card_id = "ASSIST_ALLY_UG" THEN 2 ELSE 0)

\* what one Action adds to blocks_on[t] (lines 2040-2042, 2050-2053)
BlockAdd(act, t) ==
    (IF act.card_id \in DOMAIN BLOCK_CARDS_SIMPLE /\ act.source_id = t
     THEN BLOCK_CARDS_SIMPLE[act.card_id] ELSE 0)
    + (IF act.card_id = "BLOCK_ALLY" /\ act.target_id # NoTarget /\ act.target_id = t THEN 1 ELSE 0)
    + (IF act.card_id = "BLOCK_ALLY_UG" /\ act.target_id # NoTarget /\ act.target_id = t THEN 2 ELSE 0)

\* what one Action adds to the source's votes_cast_this_round / the target's
\* votes_received_this_round (lines 2033-2037)
CountAdd(act) ==
    IF act.card_id \in DOMAIN VOTE_CARDS_SIMPLE /\ act.target_id # NoTarget
    THEN VOTE_CARDS_SIMPLE[act.card_id] ELSE 0

RECURSIVE SumLog(_, _, _)
SumLog(log, F(_, _), t) ==
    IF log = << >> THEN 0 ELSE F(log[1], t) + SumLog(Tail(log), F, t)

\* variant: only the Action appended last is tallied
votes_on_last(log, t) == IF log = << >> THEN 0 ELSE VoteAdd(log[Len(log)], t)

votes_on(log, t) == SumLog(log, VoteAdd, t)

blocks_on(log, t) == SumLog(log, BlockAdd, t)

\* the keys of votes_on
VoteKeys(log) == { t \in Users : \E i \in 1..Len(log) : VoteAdd(log[i], t) > 0 }

final_votes(log) == [pid \in VoteKeys(log) |-> Max(0, votes_on(log, pid) - blocks_on(log, pid))]

max_votes(log) ==
    CHOOSE m \in { final_votes(log)[pid] : pid \in VoteKeys(log) } :
        \A pid \in VoteKeys(log) : final_votes(log)[pid] <= m

\* variant: of the players tied at the maximum only one is taken
elim_ids_first(log) ==
    { CHOOSE pid \in VoteKeys(log) : final_votes(log)[pid] = max_votes(log) }

elim_ids(log) == { pid \in VoteKeys(log) : final_votes(log)[pid] = max_votes(log) }

\* variant: a player is eliminated only by the votes of more than half of the alive players
elim_players_majority(log) ==
    { pid \in elim_ids(log) :
        players[pid].alive /\ 2 * final_votes(log)[pid] > Cardinality(list_alive_players) }

elim_players(log) == { pid \in elim_ids(log) : players[pid].alive }

CastBy(log, u) == SumLog(log, LAMBDA act, v : IF act.source_id = v THEN CountAdd(act) ELSE 0, u)

ReceivedBy(log, u) == SumLog(log, LAMBDA act, v : IF act.target_id = v THEN CountAdd(act) ELSE 0, u)

\* random.sample(pool, 3): the outcomes explored are NumSamples windows of the pool
Samples ==
    { { Pool[((w + j) % Len(Pool)) + 1] : j \in 0..(OfferSize - 1) } : w \in 0..(NumSamples - 1) }

\* the body of reward() (lines 2156-2163) for the alive set A of the player map pl
RewardOffers(A) ==
    { f \in [Users -> Samples \cup {{}}] :
        \A u \in Users : IF u \in A THEN f[u] \in Samples ELSE f[u] = {} }

RewardKeyboards(f, A) == { [ player_id |-> u, offers |-> f[u] ] : u \in A }

Tallied(log) ==
    [u \in Joined |->
        [players[u] EXCEPT !.votes_cast_this_round = @ + CastBy(log, u),
                           !.votes_received_this_round = @ + ReceivedBy(log, u)]]

\* "No actions were played this round" / "nobody has any votes": nothing changes
resolve_nothing(a) ==
    /\ exists
    /\ resolves < MaxResolves
    /\ IsHost(a)
    /\ Cardinality(list_alive_players) >= 2
    /\ actions = << >> \/ VoteKeys(actions) = {}
    /\ resolves' = resolves + 1
    /\ UNCHANGED << seed, gameVars, registry, kbdVars, plays, extras, presses, chosen, refills, winner, refused, round0 >>

\* variant: the game ends only when exactly one player is left
game_over_one(after) == Cardinality(after) = 1

\* lines 2092-2102: one player left, or none: the game is over
game_over(after) == Cardinality(after) <= 1

\* Lines 2104-2108: with two or more players left the handler calls
\* reward(update, context, game); the name reward is bound to the two-parameter
\* wrapper require_game returns, so the call raises TypeError before the body of
\* reward runs: the phase and the offers stay as they were.
resolve(a) ==
    LET dead == elim_players(actions)
        after == list_alive_players \ dead
        pl == [u \in Joined |-> [Tallied(actions)[u] EXCEPT !.alive = @ /\ u \notin dead]]
    IN /\ exists
       /\ resolves < MaxResolves
       /\ IsHost(a)
       /\ Cardinality(list_alive_players) >= 2
       /\ actions # << >> /\ VoteKeys(actions) # {}
       /\ resolves' = resolves + 1
       /\ players' = pl
       /\ IF game_over(after)
          THEN /\ phase' = "finished"
               /\ winner' = IF after = {} THEN 0 ELSE CHOOSE u \in after : TRUE
          ELSE UNCHANGED << phase, winner >>
       /\ UNCHANGED << seed, exists, host, round_number, joining_open, actions, reward_offers, registry,
                       kbdVars, plays, extras, presses, chosen, refills, refused, round0 >>

\* ----------------------------------------------------------------- /reward
reward(a) ==
    /\ exists
    /\ extras < MaxExtras
    /\ IsHost(a)
    /\ list_alive_players # {}
    /\ phase' = "drafting"
    /\ players' = [u \in Joined |-> IF players[u].alive
                                    THEN [players[u] EXCEPT !.draft_done = FALSE]
                                    ELSE players[u]]
    /\ \E f \in RewardOffers(list_alive_players) :
          /\ reward_offers' = f
          /\ rewardMsgs' = rewardMsgs \cup RewardKeyboards(f, list_alive_players)
    /\ extras' = extras + 1
    /\ UNCHANGED << seed, exists, host, round_number, joining_open, actions, registry,
                    menus, pickers, assists, campMenus, campPicks,
                    plays, resolves, presses, chosen, refills, winner, refused, round0 >>

\* variant: the pressed card is not looked up in the player's offer
reward_pick_unchecked(k, cid) ==
    LET u == k.player_id
    IN /\ exists
       /\ presses < MaxPresses
       /\ k \in rewardMsgs /\ cid \in k.offers
       /\ IF u \in Joined
          THEN /\ players' = [players EXCEPT ![u].deck = Append(@, cid), ![u].draft_done = TRUE]
               /\ reward_offers' = [reward_offers EXCEPT ![u] = {}]
          ELSE UNCHANGED << players, reward_offers >>
       /\ rewardMsgs' = rewardMsgs \ {k}
       /\ presses' = presses + 1
       /\ UNCHANGED << seed, exists, host, round_number, joining_open, phase, actions, registry,
                       menus, pickers, assists, campMenus, campPicks, plays, resolves, extras, chosen, refills, winner, refused, round0 >>

\* callback reward_pick: button cid of the draft keyboard k
reward_pick(k, cid) ==
    LET u == k.player_id
    IN /\ exists
       /\ presses < MaxPresses
       /\ k \in rewardMsgs /\ cid \in k.offers
       /\ IF cid \in reward_offers[u] /\ u \in Joined
          THEN /\ players' = [players EXCEPT ![u].deck = Append(@, cid), ![u].draft_done = TRUE]
               /\ reward_offers' = [reward_offers EXCEPT ![u] = {}]
          ELSE UNCHANGED << players, reward_offers >>
       /\ rewardMsgs' = rewardMsgs \ {k}
       /\ presses' = presses + 1
       /\ UNCHANGED << seed, exists, host, round_number, joining_open, phase, actions, registry,
                       menus, pickers, assists, campMenus, campPicks, plays, resolves, extras, chosen, refills, winner, refused, round0 >>

\* callback reward_skip
reward_skip(k) ==
    LET u == k.player_id
    IN /\ exists
       /\ presses < MaxPresses
       /\ k \in rewardMsgs
       /\ reward_offers' = [reward_offers EXCEPT ![u] = {}]
       /\ players' = IF u \in Joined THEN [players EXCEPT ![u].draft_done = TRUE] ELSE players
       /\ rewardMsgs' = rewardMsgs \ {k}
       /\ presses' = presses + 1
       /\ UNCHANGED << seed, exists, host, round_number, joining_open, phase, actions, registry,
                       menus, pickers, assists, campMenus, campPicks, plays, resolves, extras, chosen, refills, winner, refused, round0 >>

\* ------------------------------------------------------------------- /camp
camp(a) ==
    /\ exists
    /\ extras < MaxExtras
    /\ IsHost(a)
    /\ list_alive_players # {}
    /\ phase' = "camp"
    /\ players' = [u \in Joined |-> IF players[u].alive
                                    THEN [players[u] EXCEPT !.camp_done = FALSE]
                                    ELSE players[u]]
    /\ campMenus' = campMenus \cup list_alive_players
    /\ extras' = extras + 1
    /\ UNCHANGED << seed, exists, host, round_number, joining_open, actions, reward_offers, registry,
                    menus, pickers, assists, rewardMsgs, campPicks,
                    plays, resolves, presses, chosen, refills, winner, refused, round0 >>

\* set(p.deck + p.discard)
OwnedIds(r) == { r.deck[i] : i \in 1..Len(r.deck) } \cup { r.discard[i] : i \in 1..Len(r.discard) }

\* callbacks camp_upgrade / camp_remove: button kind of u's camp menu
camp_choose(u, kind) ==
    LET listed == IF kind = "upgrade"
                  THEN { c \in OwnedIds(players[u]) : c \in DOMAIN UPGRADE_MAP }
                  ELSE OwnedIds(players[u])
    IN /\ exists
       /\ chosen < MaxMenus
       /\ u \in campMenus
       /\ campMenus' = campMenus \ {u}
       /\ IF u \notin Joined \/ ~players[u].alive
          THEN UNCHANGED << players, campPicks >>
          ELSE IF listed = {}
          THEN /\ players' = [players EXCEPT ![u].camp_done = TRUE]
               /\ UNCHANGED campPicks
          ELSE /\ campPicks' = campPicks \cup { [ player_id |-> u, kind |-> kind, cards |-> listed ] }
               /\ UNCHANGED players
       /\ chosen' = chosen + 1
       /\ UNCHANGED << seed, exists, host, round_number, joining_open, phase, actions, reward_offers,
                       registry, menus, pickers, assists, rewardMsgs,
                       plays, resolves, extras, presses, refills, winner, refused, round0 >>

\* replace / remove the first occurrence of cid, in the deck before the discard
\* variant: the discard is searched before the deck
UpgradeInDiscardFirst(r, cid) ==
    IF Contains(r.discard, cid)
    THEN [r EXCEPT !.discard = [r.discard EXCEPT ![IndexOf(r.discard, cid)] = UPGRADE_MAP[cid]]]
    ELSE [r EXCEPT !.deck = [r.deck EXCEPT ![IndexOf(r.deck, cid)] = UPGRADE_MAP[cid]]]

UpgradeIn(r, cid) ==
    IF Contains(r.deck, cid)
    THEN [r EXCEPT !.deck = [r.deck EXCEPT ![IndexOf(r.deck, cid)] = UPGRADE_MAP[cid]]]
    ELSE [r EXCEPT !.discard = [r.discard EXCEPT ![IndexOf(r.discard, cid)] = UPGRADE_MAP[cid]]]

\* variant: the card is removed from the deck and from the discard
RemoveInBoth(r, cid) ==
    [r EXCEPT !.deck = IF Contains(r.deck, cid) THEN RemoveAt(r.deck, IndexOf(r.deck, cid)) ELSE @,
              !.discard = IF Contains(r.discard, cid)
                          THEN RemoveAt(r.discard, IndexOf(r.discard, cid)) ELSE @]

RemoveIn(r, cid) ==
    IF Contains(r.deck, cid)
    THEN [r EXCEPT !.deck = RemoveAt(r.deck, IndexOf(r.deck, cid))]
    ELSE [r EXCEPT !.discard = RemoveAt(r.discard, IndexOf(r.discard, cid))]

\* callbacks camp_pick_upgrade / camp_pick_remove: button cid of the keyboard k.
\* A card found in neither pile only raises an alert: the keyboard stays.
camp_pick(k, cid) ==
    LET u == k.player_id
        r == players[u]
    IN /\ exists
       /\ presses < MaxPresses
       /\ k \in campPicks /\ cid \in k.cards
       /\ IF u \notin Joined \/ ~r.alive
          THEN /\ campPicks' = campPicks \ {k}
               /\ UNCHANGED players
          ELSE /\ Contains(r.deck, cid) \/ Contains(r.discard, cid)
               /\ campPicks' = campPicks \ {k}
               /\ players' = [players EXCEPT ![u] =
                     [(IF k.kind = "upgrade" THEN UpgradeIn(r, cid) ELSE RemoveIn(r, cid))
                        EXCEPT !.camp_done = TRUE]]
       /\ presses' = presses + 1
       /\ UNCHANGED << seed, exists, host, round_number, joining_open, phase, actions, reward_offers,
                       registry, menus, pickers, assists, rewardMsgs, campMenus,
                       plays, resolves, extras, chosen, refills, winner, refused, round0 >>

\* -------------------------------------------------------- /remove, /upgrade
remove_cmd(u, n) ==
    /\ u \in registry /\ exists
    /\ extras < MaxExtras
    /\ u \in Joined
    /\ n - 1 >= 0 /\ n - 1 < Len(players[u].deck)
    /\ players' = [players EXCEPT ![u].deck = RemoveAt(@, n)]
    /\ extras' = extras + 1
    /\ UNCHANGED << seed, exists, host, round_number, joining_open, phase, actions, reward_offers,
                    registry, kbdVars, plays, resolves, presses, chosen, refills, winner, refused, round0 >>

upgrade_cmd(u, n) ==
    /\ u \in registry /\ exists
    /\ extras < MaxExtras
    /\ u \in Joined
    /\ n - 1 >= 0 /\ n - 1 < Len(players[u].deck)
    /\ players[u].deck[n] \in DOMAIN UPGRADE_MAP
    /\ players' = [players EXCEPT ![u].deck[n] = UPGRADE_MAP[players[u].deck[n]]]
    /\ extras' = extras + 1
    /\ UNCHANGED << seed, exists, host, round_number, joining_open, phase, actions, reward_offers,
                    registry, kbdVars, plays, resolves, presses, chosen, refills, winner, refused, round0 >>

\* ---------------------------------------------------------------- /endgame
\* del GAMES[chat_id]: the GameState is dropped and every keyboard of the game
\* answers "Game no longer exists." from then on
endgame(a) ==
    /\ exists
    /\ IsHost(a)
    /\ phase' = "finished"
    /\ exists' = FALSE
    /\ players' = << >>
    /\ actions' = << >>
    /\ reward_offers' = [u \in Users |-> {}]
    /\ menus' = [u \in Users |-> 0]
    /\ pickers' = {} /\ assists' = {} /\ rewardMsgs' = {} /\ campMenus' = {} /\ campPicks' = {}
    /\ UNCHANGED << seed, host, round_number, joining_open, registry, cntVars, winner, refused, round0 >>

\* ------------------------------------------------------------ specification
\* inputs: the hand indexes pressed are the first and the last card of the hand,
\* the N of /remove N and /upgrade N is the first or the last card of the deck
HandIndexes(u) == {0, Len(players[u].hand) - 1} \ {-1}

DeckNumbers(u) == {1, Len(players[u].deck)} \ {0}

\* inputs: the buttons pressed on a camp keyboard
CampButtons(k) == k.cards \cap {"BASE_VOTE", "SURVIVE"}

\* the round loop: lobby, rounds, plays, resolution
RoundLoop ==
    \/ \E u \in Creators : newgame(u)
    \/ \E u \in Users : join(u)
    \/ \E a \in Users : startgame(a)
    \/ \E a \in Users : nextround(a)
    \/ \E u \in Joined : \E idx \in HandIndexes(u) : playcard_reject(u, idx)
    \/ \E u \in Joined : \E idx \in HandIndexes(u) : playcard_now(u, idx)
    \/ \E u \in Joined : \E idx \in HandIndexes(u) : playcard_ask(u, idx)
    \/ \E k \in pickers : \E t \in k.targets : target_reject(k, t)
    \/ \E k \in pickers : \E t \in k.targets : target_assist(k, t)
    \/ \E k \in pickers : \E t \in k.targets : target_play(k, t)
    \/ \E k \in assists : \E t \in k.targets : assist_target(k, t)
    \/ \E u \in Users : done(u)
    \/ \E a \in Users : resolve_nothing(a)
    \/ \E a \in Users : resolve(a)
    \/ \E a \in Users : endgame(a)

\* the draft: /reward and its keyboards
Draft ==
    \/ \E a \in Users : reward(a)
    \/ \E k \in rewardMsgs : \E cid \in k.offers : reward_pick(k, cid)
    \/ \E k \in rewardMsgs : reward_skip(k)

\* the camp and the deck editing commands
Camp ==
    \/ \E a \in Users : camp(a)
    \/ \E u \in campMenus : \E kind \in {"upgrade", "remove"} : camp_choose(u, kind)
    \/ \E k \in campPicks : \E cid \in CampButtons(k) : camp_pick(k, cid)
    \/ \E u \in Joined : \E n \in DeckNumbers(u) : remove_cmd(u, n)
    \/ \E u \in Joined : \E n \in DeckNumbers(u) : upgrade_cmd(u, n)

Next == RoundLoop

NextDraft == RoundLoop \/ Draft

NextCamp == RoundLoop \/ Camp

NextHost ==
    \/ RoundLoop
    \/ \E a \in Users : reward(a)
    \/ \E a \in Users : camp(a)
    \/ \E a \in Users : \E cmd \in HostCommands : host_refuse(a, cmd)

\* the game without draft and camp
Spec == Init /\ [][Next]_vars

\* the game with the draft
SpecDraft == Init /\ [][NextDraft]_vars

\* the game with the camp and the deck editing commands
SpecCamp == Init /\ [][NextCamp]_vars

\* the host commands, called by the host and by the other users
SpecHost == Init /\ [][NextHost]_vars

\* ------------------------------------------------- a game between two rounds
\* Player 1's piles, pending extra cards and pending energy bonus at the end of
\* round 1 are drawn from these; player 2 played no card, pressed Done, drafted
\* GAMBLE and removed SURVIVE at the camp; player 3 was eliminated in round 1.
HandSource == << "PROTECTION", "BASE_VOTE", "PROTECTION", "PEEK" >>

DeckSource == << "BLOCK_1", "BASE_VOTE", "SURVIVE" >>

DiscardSource == << "WEAKEN", "BASE_VOTE", "ASSIST_ALLY", "BLOCK_ALLY", "BASE_VOTE" >>

Prefixes(s) == { SubSeq(s, 1, n) : n \in 0..Len(s) }

\* the player whose piles are the inputs; the camp menu of this player is
\* still displayed
Drawers == { 1 }

FirstPlayer ==
    { [NewPlayer(1) EXCEPT !.hand = h, !.deck = d, !.discard = x,
                           !.next_round_extra_cards = e, !.next_round_energy_bonus = b,
                           !.energy = g] :
        h \in Prefixes(HandSource), d \in Prefixes(DeckSource), x \in Prefixes(DiscardSource),
        e \in 0..MaxPending, b \in 0..MaxBonus, g \in {0, BaseEnergy} }

SecondPlayer ==
    [NewPlayer(2) EXCEPT !.hand = << "BASE_VOTE", "BASE_VOTE", "BASE_VOTE", "BASE_VOTE", "BLOCK_1" >>,
                         !.deck = << "ASSIST_ALLY", "BLOCK_ALLY", "PEEK", "WEAKEN", "GAMBLE" >>,
                         !.turn_done = TRUE, !.draft_done = TRUE, !.camp_done = TRUE]

EliminatedPlayer ==
    [NewPlayer(3) EXCEPT !.alive = FALSE,
                         !.hand = << "BASE_VOTE", "PROTECTION" >>,
                         !.discard = << "PEEK" >>,
                         !.deck = << "BLOCK_1" >>,
                         !.votes_received_this_round = 2]

\* The host sent /reward twice after round 1. Player 1 answered neither draft
\* keyboard; player 2 took GAMBLE from the second one and left the first one
\* displayed.
EarlierOffer == { "PROTECTION", "TORNADO", "GAMBLE" }

LastOffer == { "TURBO_TIME", "PROTECTION", "TORNADO" }

InitPiles ==
    /\ seed \in 0..(NumSeeds - 1)
    /\ exists = TRUE
    /\ host = 1
    /\ round_number = 1
    /\ round0 = 1
    /\ joining_open = FALSE
    /\ phase = "camp"
    /\ \E r \in FirstPlayer :
          players = [u \in Users |-> IF u = 1 THEN r ELSE IF u = 2 THEN SecondPlayer
                                                          ELSE EliminatedPlayer]
    /\ actions = << >>
    /\ reward_offers = [u \in Users |-> IF u \in Drawers THEN LastOffer ELSE {}]
    /\ registry = Users
    /\ menus = [u \in Users |-> IF u = 2 THEN 0 ELSE 1]
    /\ pickers = {}
    /\ assists = {}
    /\ rewardMsgs = { [ player_id |-> u, offers |-> EarlierOffer ] : u \in {1, 2} }
                    \cup { [ player_id |-> u, offers |-> LastOffer ] : u \in Drawers }
    /\ campMenus = Drawers
    /\ campPicks = {}
    /\ plays = 0
    /\ resolves = 1
    /\ extras = 0
    /\ presses = 0
    /\ chosen = 0
    /\ refills = 2
    /\ winner = 0
    /\ refused = ""

\* draw_one(p) applied to player u
DrawOne(u) ==
    /\ exists
    /\ players' = [players EXCEPT ![u] = draw_one(players[u], seed)]
    /\ UNCHANGED << seed, exists, host, round_number, joining_open, phase, actions, reward_offers,
                    registry, kbdVars, cntVars, winner, refused, round0 >>

\* draw_cards(p, n) applied to player u
DrawCards(u, n) ==
    /\ exists
    /\ players' = [players EXCEPT ![u] = draw_cards(players[u], n, seed)]
    /\ UNCHANGED << seed, exists, host, round_number, joining_open, phase, actions, reward_offers,
                    registry, kbdVars, cntVars, winner, refused, round0 >>

NextPiles ==
    \/ \E a \in Users : nextround(a)
    \/ \E u \in Drawers : DrawOne(u)
    \/ \E u \in Drawers : \E n \in 0..MaxDraw : DrawCards(u, n)

\* the piles at the start of a round and under draw_one and draw_cards
SpecPiles == InitPiles /\ [][NextPiles]_vars

NextCampPiles ==
    \/ Camp
    \/ \E a \in Users : nextround(a)

\* the piles under the camp keyboards and the deck editing commands
SpecCampPiles == InitPiles /\ [][NextCampPiles]_vars

NextDraftPiles ==
    \/ Draft
    \/ \E a \in Users : nextround(a)

\* the piles under the draft keyboards
SpecDraftPiles == InitPiles /\ [][NextDraftPiles]_vars

\* ------------------------------------------------- a game in its third round
\* Player 1 drafted TURBO_TIME after round 1 and played it in round 2, which put
\* a CURSE on the discard pile; the draw of round 3 took the last deck card,
\* reshuffled the discard pile and drew four more. In round 3 player 1 pressed
\* the BASE_VOTE at index 1 of the hand menu and has not chosen a target yet;
\* the hand menu of round 2 is still displayed. The cards around that
\* BASE_VOTE are the inputs.
RoundThreeCards == STARTER_DECK_DEFAULT \o << "TURBO_TIME", "CURSE" >>

FirstCards == { "BLOCK_1", "SURVIVE" }

ThirdCards == { "CURSE", "ASSIST_ALLY", "BASE_VOTE" }

FourthCards == { "PEEK", "WEAKEN" }

RECURSIVE TakeOut(_, _)
TakeOut(s, h) ==
    IF h = << >> THEN s ELSE TakeOut(RemoveAt(s, IndexOf(s, h[1])), Tail(h))

PickingPlayer ==
    { [NewPlayer(1) EXCEPT !.hand = << a, "BASE_VOTE", c, d, "BASE_VOTE" >>,
                           !.deck = TakeOut(RoundThreeCards, << a, "BASE_VOTE", c, d, "BASE_VOTE" >>),
                           !.energy = BaseEnergy - 1] :
        a \in FirstCards, c \in ThirdCards, d \in FourthCards }

WaitingPlayer == [SecondPlayer EXCEPT !.turn_done = FALSE, !.energy = BaseEnergy]

InitMidRound ==
    /\ seed \in 0..(NumSeeds - 1)
    /\ exists = TRUE
    /\ host = 1
    /\ round_number = 3
    /\ round0 = 3
    /\ joining_open = FALSE
    /\ phase = "playing"
    /\ \E r \in PickingPlayer :
          players = [u \in Users |-> IF u = 1 THEN r ELSE IF u = 2 THEN WaitingPlayer
                                                          ELSE EliminatedPlayer]
    /\ actions = << >>
    /\ reward_offers = [u \in Users |-> {}]
    /\ registry = Users
    /\ menus = [u \in Users |-> IF u = 3 THEN 0 ELSE 1]
    /\ pickers = { [ player_id |-> 1, card_index |-> 1, x_value |-> 0, targets |-> { 2 },
                     card |-> "BASE_VOTE", spent |-> 1, sent_at |-> 4 ] }
    /\ assists = {}
    /\ rewardMsgs = {}
    /\ campMenus = {}
    /\ campPicks = {}
    /\ plays = 0
    /\ resolves = 0
    /\ extras = 0
    /\ presses = 0
    /\ chosen = 0
    /\ refills = 4
    /\ winner = 0
    /\ refused = ""

NextMidRound ==
    \/ \E u \in Joined : \E idx \in HandIndexes(u) : playcard_reject(u, idx)
    \/ \E u \in Joined : \E idx \in HandIndexes(u) : playcard_now(u, idx)
    \/ \E u \in Joined : \E idx \in HandIndexes(u) : playcard_ask(u, idx)
    \/ \E k \in pickers : \E t \in k.targets : target_reject(k, t)
    \/ \E k \in pickers : \E t \in k.targets : target_assist(k, t)
    \/ \E k \in pickers : \E t \in k.targets : target_play(k, t)
    \/ \E k \in assists : \E t \in k.targets : assist_target(k, t)
    \/ \E u \in Users : done(u)
    \/ \E a \in Users : resolve(a)

\* the plays of a round whose keyboards were sent before the hand changed
SpecMidRound == InitMidRound /\ [][NextMidRound]_vars

\* -------------------------------------------- a round with a drawing card
\* Player 1 holds one card with an immediate effect, alone or next to a
\* BASE_VOTE, on either side of it; deck and discard pile are drawn from the
\* same sources as between two rounds.
EffectCards ==
    { "QUICK_DRAW", "BALANCE", "BACKPACK", "ESCAPE", "BRING_IT_ON", "FLIP", "SURVIVE", "GAMBLE" }

EffectHands ==
    UNION { { << c >>, << c, "BASE_VOTE" >>, << "BASE_VOTE", c >> } : c \in EffectCards }

EffectPlayer ==
    { [NewPlayer(1) EXCEPT !.hand = h, !.deck = d, !.discard = x] :
        h \in EffectHands, d \in Prefixes(DeckSource), x \in Prefixes(DiscardSource) }

InitEffects ==
    /\ seed \in 0..(NumSeeds - 1)
    /\ exists = TRUE
    /\ host = 1
    /\ round_number = 2
    /\ round0 = 2
    /\ joining_open = FALSE
    /\ phase = "playing"
    /\ \E r \in EffectPlayer :
          players = [u \in Users |-> IF u = 1 THEN r ELSE IF u = 2 THEN WaitingPlayer
                                                          ELSE EliminatedPlayer]
    /\ actions = << >>
    /\ reward_offers = [u \in Users |-> {}]
    /\ registry = Users
    /\ menus = [u \in Users |-> IF u = 3 THEN 0 ELSE 1]
    /\ pickers = {}
    /\ assists = {}
    /\ rewardMsgs = {}
    /\ campMenus = {}
    /\ campPicks = {}
    /\ plays = 0
    /\ resolves = 1
    /\ extras = 0
    /\ presses = 0
    /\ chosen = 0
    /\ refills = 3
    /\ winner = 0
    /\ refused = ""

NextEffects ==
    \E u \in Drawers : \E idx \in HandIndexes(u) : playcard_now(u, idx)

\* the plays of cards with an immediate effect
SpecEffects == InitEffects /\ [][NextEffects]_vars

\* ------------------------------------------- the host alternates the rounds
\* a round has begun and /resolve has not tallied a vote of it yet: /nextround
\* sets the two counters to 0 and only /resolve increases them
RoundOpen ==
    /\ exists /\ phase = "playing"
    /\ \A u \in Joined : players[u].votes_cast_this_round = 0

\* /startgame, sent once, from the lobby
StartGame(a) == joining_open /\ startgame(a)

\* /nextround, sent when no round is open
BeginRound(a) == ~RoundOpen /\ nextround(a)

\* a press on a BASE_VOTE of the hand menu in an open round
CastVote(u, idx) ==
    /\ RoundOpen
    /\ idx < Len(players[u].hand)
    /\ players[u].hand[idx + 1] = "BASE_VOTE"
    /\ playcard_ask(u, idx)

\* /resolve, sent once in an open round
ResolveRound(a) == RoundOpen /\ resolve(a)

NextAlternate ==
    \/ \E u \in Creators : newgame(u)
    \/ \E u \in Users : join(u)
    \/ \E a \in Users : StartGame(a)
    \/ \E a \in Users : BeginRound(a)
    \/ \E u \in Joined : \E idx \in HandIndexes(u) : CastVote(u, idx)
    \/ \E k \in pickers : \E t \in k.targets : target_play(k, t)
    \/ \E a \in Users : ResolveRound(a)

\* the host sends /resolve in every round in which it is accepted
FairResolve == WF_vars(\E a \in Users : ResolveRound(a))

\* the host alternates /nextround and /resolve, the players cast votes
SpecAlternate == Init /\ [][NextAlternate]_vars /\ FairResolve

\* ------------------------------------------------ /newgame sent a second time
NextAgain ==
    \/ \E u \in Creators : newgame(u)
    \/ \E u \in Users : newgame_again(u)
    \/ \E u \in Users : join(u)
    \/ \E a \in Users : startgame(a)
    \/ \E a \in Users : nextround(a)
    \/ \E u \in Users : done(u)
    \/ \E a \in Users : endgame(a)

\* the commands of the lobby with /newgame sent in a chat that already has a game
SpecAgain == Init /\ [][NextAgain]_vars

\* ------------------------------------------------------------------ claims
PileSum(r) == Len(r.deck) + Len(r.discard) + Len(r.hand)

\* the step records an Action of a card that adds a curse card
CurseInserted ==
    /\ Len(actions') = Len(actions) + 1
    /\ DescAddsCurse(actions'[Len(actions')].card_id)

\* the steps on which the sum of a player's pile sizes may change
PileSumMayChange ==
    \/ \E a \in Users : startgame(a)
    \/ \E k \in rewardMsgs : \E cid \in k.offers : reward_pick(k, cid)
    \/ \E k \in campPicks : \E cid \in k.cards : camp_pick(k, cid)
    \/ \E u \in Joined : \E n \in DeckNumbers(u) : remove_cmd(u, n)
    \/ CurseInserted

\* C1: for every player, |deck| + |discard| + |hand| changes only on a draft
\* pick, a curse insertion, a camp remove or /remove, and the start reset; an
\* accepted card play with its immediate effects, and /nextround, leave it
\* unchanged.
C1_PileSumKept ==
    [][ \A u \in Joined :
          (u \in DOMAIN players' /\ PileSum(players'[u]) # PileSum(players[u]))
             => PileSumMayChange ]_vars

\* a /resolve call the handler processes
ResolveStep == \E a \in Users : resolve(a) \/ resolve_nothing(a)

\* finalVotes[p] = max(0, votesOn[p] - blocksOn[p]) for the current log
FinalVotesOf(u) == Max(0, votes_on(actions, u) - blocks_on(actions, u))

\* C2: a /resolve eliminates nobody when no player has finalVotes > 0: every
\* player alive before it is alive after it.
C2_NoVotesNoElimination ==
    [][ (ResolveStep /\ \A u \in Joined : FinalVotesOf(u) = 0)
          => \A u \in Joined : players[u].alive => players'[u].alive ]_vars

\* C4: a /resolve of the host on a game with two or more alive players that
\* leaves two or more alive ends in phase drafting, with an offer of three
\* distinct cards for every alive player and none for an eliminated one.
C4_ResolveEndsInDraft ==
    [][ (ResolveStep /\ Cardinality({ u \in Joined : players'[u].alive }) >= 2)
          => /\ phase' = "drafting"
             /\ \A u \in Joined :
                   Cardinality(reward_offers'[u]) = (IF players'[u].alive THEN OfferSize ELSE 0) ]_vars

\* a playcard, target or assist_target callback
PlayCallback ==
    \/ \E u \in Joined : \E idx \in HandIndexes(u) : playcard_now(u, idx) \/ playcard_ask(u, idx)
    \/ \E k \in pickers : \E t \in k.targets :
          target_reject(k, t) \/ target_assist(k, t) \/ target_play(k, t)
    \/ \E k \in assists : \E t \in k.targets : assist_target(k, t)

\* the hand, the discard and the energy of every player
HandsAndEnergy == [u \in Joined |-> << players[u].hand, players[u].discard, players[u].energy >>]

\* C6: a card play callback pressed while the phase is not playing appends no
\* Action and changes no player's hand, discard or energy.
C6_NoPlayOutsidePlaying ==
    [][ (PlayCallback /\ phase # "playing")
          => (actions' = actions /\ HandsAndEnergy' = HandsAndEnergy) ]_vars

\* C7: a play that ends in rejection leaves nothing behind: the rejecting
\* step changes no hand, discard or log, and, when no refill came in between,
\* the energy the playcard step took for the card is back with the player.
C7_RejectedPlayKeepsEnergy ==
    [][ \A k \in pickers : \A t \in k.targets :
          (target_reject(k, t) /\ k.sent_at = refills)
             => /\ actions' = actions
                /\ \A u \in Joined :
                      /\ players'[u].hand = players[u].hand
                      /\ players'[u].discard = players[u].discard
                      /\ players'[u].energy =
                            players[u].energy + (IF u = k.player_id THEN k.spent ELSE 0) ]_vars

\* C8: one Action per played card: a play that moves a card to the discard
\* adds one Action to the log, and when the round is resolved no played
\* ASSIST_ALLY is still without its Action.
C8_OneActionPerPlayedCard ==
    [][ /\ (\E u \in Joined : \E idx \in HandIndexes(u) : playcard_now(u, idx))
            => Len(actions') = Len(actions) + 1
        /\ (\E k \in pickers : \E t \in k.targets : target_play(k, t))
            => Len(actions') = Len(actions) + 1
        /\ ResolveStep => assists = {} ]_vars

\* the greatest finalVotes of a player
MaxFinalVotes == CHOOSE m \in { FinalVotesOf(u) : u \in Joined } : \A u \in Joined : FinalVotesOf(u) <= m

\* the players a step marks not alive
Eliminated == { u \in Joined : players[u].alive /\ ~players'[u].alive }

\* C3: when the greatest finalVotes is above 0, the players a /resolve marks
\* not alive are exactly the alive players whose finalVotes is the greatest:
\* all the tied players, and nobody else.
C3_EliminatedAreTheMostVoted ==
    [][ (ResolveStep /\ MaxFinalVotes > 0)
          => Eliminated = { u \in Joined : players[u].alive /\ FinalVotesOf(u) = MaxFinalVotes } ]_vars

\* two players tied at the greatest finalVotes have been eliminated by a /resolve
C3_TieEliminated ==
    /\ exists /\ resolves > 0
    /\ \E u, v \in Joined :
          /\ u # v /\ ~players[u].alive /\ ~players[v].alive
          /\ FinalVotesOf(u) = MaxFinalVotes /\ FinalVotesOf(v) = MaxFinalVotes
          /\ MaxFinalVotes > 0

\* C5: after a /resolve that eliminates a player the phase is finished if and
\* only if at most one player is alive; one player alive is the winner, none
\* alive is a game without winner.
C5_FinishedIffOneLeft ==
    [][ (ResolveStep /\ Eliminated # {})
          => LET after == { u \in Joined : players'[u].alive }
             IN /\ (phase' = "finished") <=> (Cardinality(after) <= 1)
                /\ Cardinality(after) = 1 => winner' \in after
                /\ after = {} => winner' = 0 ]_vars

\* a /resolve has eliminated a player and left two players alive: the game goes on
C5_TwoLeftGameGoesOn ==
    /\ exists /\ resolves > 0
    /\ \E u \in Joined : ~players[u].alive /\ FinalVotesOf(u) > 0
    /\ Cardinality(list_alive_players) = 2
    /\ phase # "finished"

\* C9: in every reachable state every player's energy is at least 0.
C9_EnergyNotNegative == \A u \in Joined : players[u].energy >= 0

\* a player has paid all the energy for an X-cost card
C9_AllEnergySpent ==
    \E k \in pickers :
        /\ k.player_id \in Joined /\ CostIsX(k.card) /\ k.spent = BaseEnergy /\ k.sent_at = refills
        /\ players[k.player_id].energy = 0

\* the energy u gained from the energy cards of u in the action log
EnergyGained(u) ==
    2 * Cardinality({ i \in 1..Len(actions) :
                        actions[i].source_id = u /\ actions[i].card_id \in {"TURBO_TIME"} })

EnergyDue(r, cid) == IF CostIsX(cid) THEN r.energy ELSE card_cost(cid)

XValueDue(r, cid) == IF CostIsX(cid) THEN r.energy ELSE 0

EnergyGainOf(cid) == IF cid \in {"TURBO_TIME"} THEN 2 ELSE 0

\* C11: an accepted card press debits exactly the card's integer cost (x_value 0),
\* or all the player's energy for an X cost (x_value = the energy before the
\* press); it is accepted only with energy >= cost, and energy > 0 for X; a
\* refused press changes neither energy nor log; the Action recorded for the
\* press carries that x_value.
C11_EnergyDebitIsCost ==
    [][ /\ \A u \in Joined : \A idx \in HandIndexes(u) :
              LET r == players[u]
                  cid == r.hand[idx + 1]
              IN /\ playcard_ask(u, idx) =>
                       /\ EnergyDue(r, cid) <= r.energy
                       /\ CostIsX(cid) => r.energy > 0
                       /\ players'[u].energy = r.energy - EnergyDue(r, cid)
                       /\ \E k \in pickers' :
                             /\ k.player_id = u /\ k.card_index = idx /\ k.sent_at = refills
                             /\ k.x_value = XValueDue(r, cid)
                 /\ playcard_now(u, idx) =>
                       /\ EnergyDue(r, cid) <= r.energy
                       /\ CostIsX(cid) => r.energy > 0
                       /\ players'[u].energy = r.energy - EnergyDue(r, cid) + EnergyGainOf(cid)
                       /\ actions'[Len(actions')].x_value = XValueDue(r, cid)
                 /\ playcard_reject(u, idx) => players' = players /\ actions' = actions
        /\ \A k \in pickers : \A t \in k.targets :
              ( /\ target_play(k, t)
                /\ k.sent_at = refills
                /\ players[k.player_id].hand[k.card_index + 1] = k.card )
              => /\ actions'[Len(actions')].card_id = k.card
                 /\ actions'[Len(actions')].x_value = (IF CostIsX(k.card) THEN k.spent ELSE 0)
      ]_vars

\* an X-cost card was played with all the energy of a round, and an integer-cost
\* card with its cost
C11_XCardAndCostCardPlayed ==
    /\ \E i \in 1..Len(actions) : CostIsX(actions[i].card_id) /\ actions[i].x_value = BaseEnergy
    /\ \E i \in 1..Len(actions) :
          /\ ~CostIsX(actions[i].card_id) /\ card_cost(actions[i].card_id) > 0
          /\ actions[i].x_value = 0

HostCall(a) ==
    \/ startgame(a) \/ nextround(a) \/ resolve_nothing(a) \/ resolve(a)
    \/ reward(a) \/ camp(a) \/ endgame(a)

\* C12: a /startgame, /nextround, /resolve, /reward, /camp or /endgame call by a
\* user other than the host leaves the whole GameState unchanged: every step of
\* these commands that changes anything is a call by the host, and the refusal
\* of another user's call changes no field of the game.
C12_OnlyHostCommands ==
    [][ \A a \in Users :
           /\ HostCall(a) => a = host
           /\ (\E cmd \in HostCommands : host_refuse(a, cmd)) =>
                 /\ a # host
                 /\ UNCHANGED << gameVars, registry, kbdVars >> ]_vars

\* another user's /resolve was refused in a round with a recorded Action and two
\* players alive, where the host's /resolve would have tallied
C12_ResolveRefused ==
    /\ exists /\ refused = "resolve" /\ phase = "playing" /\ actions # << >>
    /\ Cardinality(list_alive_players) >= 2

PhaseChangesAllowed ==
    { << "lobby", "playing" >>, << "playing", "drafting" >>, << "playing", "finished" >>,
      << "drafting", "camp" >>, << "drafting", "playing" >>, << "camp", "playing" >> }

\* C13: every change of the phase of a game is lobby -> playing, playing ->
\* drafting, playing -> finished, drafting -> camp, drafting -> playing, camp ->
\* playing, or any phase -> finished; no phase changes in another way, and none
\* changes to lobby.
C13_PhaseChangesAllowed ==
    [][ (exists /\ phase' # phase) =>
           (<< phase, phase' >> \in PhaseChangesAllowed \/ phase' = "finished") ]_vars

PilesAndAlive ==
    [ u \in Joined |-> << players[u].deck, players[u].discard, players[u].hand, players[u].alive >> ]

\* C14: once the phase of a game is finished, no later operation on the game
\* changes its phase, a deck, discard or hand, an alive flag or the action log.
C14_FinishedIsImmutable ==
    [][ (exists /\ exists' /\ phase = "finished") =>
           /\ phase' = phase
           /\ PilesAndAlive' = PilesAndAlive
           /\ actions' = actions ]_vars

CardCount(s, c) == Cardinality({ i \in 1..Len(s) : s[i] = c })

\* the two sequences hold the same cards, each as many times
SameCards(s, t) == Len(s) = Len(t) /\ \A c \in Cards : CardCount(s, c) = CardCount(t, c)

\* C15: /startgame is accepted only with at least 2 joined players; after an
\* accepted /startgame every joined player's deck is a permutation of the
\* starter deck, hand and discard are empty, energy = energy_max = 3, the
\* pending extra cards and energy bonus are 0, and joining is closed: from then
\* on no join adds a player to the game.
C15_StartDealsStarterDecks ==
    [][ /\ \A a \in Users : startgame(a) =>
              /\ Cardinality(Joined) >= 2
              /\ ~joining_open'
              /\ DOMAIN players' = Joined
              /\ \A u \in Joined :
                    /\ SameCards(players'[u].deck, STARTER_DECK_DEFAULT)
                    /\ players'[u].hand = << >> /\ players'[u].discard = << >>
                    /\ players'[u].energy = 3 /\ players'[u].energy_max = 3
                    /\ players'[u].next_round_extra_cards = 0
                    /\ players'[u].next_round_energy_bonus = 0
        /\ (exists /\ exists' /\ ~joining_open) =>
              (~joining_open' /\ DOMAIN players' = Joined) ]_vars

\* a game of two players was started again after cards were played: the piles
\* are the starter piles again, and the third user cannot join
C15_StartedAgainAfterPlays ==
    /\ exists /\ phase = "lobby" /\ ~joining_open /\ actions # << >>
    /\ Cardinality(Joined) = 2
    /\ \A u \in Joined : players[u].hand = << >> /\ Len(players[u].deck) = Len(STARTER_DECK_DEFAULT)

AliveCount == Cardinality({ u \in Joined : players[u].alive })

IsPrefix(s, t) == Len(s) <= Len(t) /\ SubSeq(t, 1, Len(s)) = s

\* C16: /nextround is accepted only with at least 2 players alive; every
\* accepted /nextround adds exactly 1 to round_number, sets the phase to
\* playing and leaves the action log empty; between two /nextround calls the
\* log of a game only grows at its end, so a /resolve tallies no Action recorded
\* before the last /nextround.
C16_NextRoundClearsLog ==
    [][ /\ \A a \in Users : nextround(a) =>
              /\ AliveCount >= 2
              /\ round_number' = round_number + 1
              /\ phase' = "playing"
              /\ actions' = << >>
        /\ (exists /\ exists' /\ ~(\E a \in Users : nextround(a))) => IsPrefix(actions, actions')
        /\ \A a \in Users : resolve(a) =>
              \A u \in Joined :
                 players'[u].votes_received_this_round =
                    players[u].votes_received_this_round + ReceivedBy(actions, u) ]_vars

\* a round began after a /resolve had tallied votes and eliminated a player:
\* the log of the tallied round is gone
C16_RoundBeganAfterTally ==
    /\ exists /\ phase = "playing" /\ round_number = 1 /\ actions = << >>
    /\ AliveCount = 2 /\ Cardinality(Joined) = 3
    /\ \A u \in Joined : players[u].alive => Len(players[u].hand) >= BaseHand

Min(a, b) == IF a <= b THEN a ELSE b

AllCards(r) == r.deck \o r.discard \o r.hand

\* C17: an accepted /nextround, for every alive player: the Retain cards of
\* the hand stay in the hand, in order; the other hand cards go to the discard;
\* then exactly min(5 + next_round_extra_cards, |deck| + |discard|) cards are
\* drawn behind the retained ones; next_round_extra_cards becomes 0; no card is
\* lost or made. The PlayerState of an eliminated player is not touched.
C17_RetainThenDraw ==
    [][ \A a \in Users : nextround(a) =>
           \A u \in Joined :
              LET r == players[u]
                  keep == SelectSeq(r.hand, card_has_retain)
                  drop == SelectSeq(r.hand, LAMBDA c : ~card_has_retain(c))
                  n == Min(5 + r.next_round_extra_cards,
                           Len(r.deck) + Len(r.discard) + Len(drop))
              IN IF r.alive
                 THEN /\ IsPrefix(keep, players'[u].hand)
                      /\ Len(players'[u].hand) = Len(keep) + n
                      /\ players'[u].next_round_extra_cards = 0
                      /\ SameCards(AllCards(players'[u]), AllCards(r))
                      /\ Len(r.deck) >= n => players'[u].discard = r.discard \o drop
                 ELSE players'[u] = r ]_vars

\* round 2 began for a player who held two Retain cards among four and had 2
\* extra cards pending: the two are kept and 7 cards drawn behind them, and the
\* eliminated player's piles are as they were
C17_TwoRetainedSevenDrawn ==
    /\ exists /\ round_number = 2
    /\ Len(players[1].hand) = 9
    /\ SubSeq(players[1].hand, 1, 2) = << "PROTECTION", "PROTECTION" >>
    /\ players[3] = EliminatedPlayer

\* C18: an accepted /nextround sets, for every alive player, energy_max to 3 +
\* the banked next_round_energy_bonus, energy to energy_max and the bonus to
\* 0, and resets blocks, votes_cast_this_round, votes_received_this_round and
\* the turn_done, draft_done and camp_done flags.
C18_EnergyAndFlagsReset ==
    [][ \A a \in Users : nextround(a) =>
           \A u \in Joined : players[u].alive =>
              LET q == players'[u]
              IN /\ q.energy_max = 3 + players[u].next_round_energy_bonus
                 /\ q.energy = q.energy_max
                 /\ q.next_round_energy_bonus = 0
                 /\ q.blocks = 0
                 /\ q.votes_cast_this_round = 0 /\ q.votes_received_this_round = 0
                 /\ ~q.turn_done /\ ~q.draft_done /\ ~q.camp_done ]_vars

\* round 2 began for a player with a banked bonus of 1 and no energy left, and
\* for a player whose three flags were set
C18_BonusPaidFlagsCleared ==
    /\ exists /\ round_number = 2
    /\ players[1].energy = 4 /\ players[1].energy_max = 4
    /\ players[1].next_round_energy_bonus = 0
    /\ ~players[2].turn_done /\ ~players[2].draft_done /\ ~players[2].camp_done

NeedsReshuffle(r) == r.deck = << >> /\ r.discard # << >>

\* C19: draw_one reshuffles only when the deck is empty and the discard is not;
\* the reshuffle puts exactly the cards of the discard into the deck (one of
\* them is then drawn), leaves the discard empty and does not touch the cards
\* already in the hand. Without a reshuffle the discard is as it was and the
\* top card of the deck, if there is one, goes to the hand.
C19_ReshuffleOnlyOnEmptyDeck ==
    [][ \A u \in Drawers : DrawOne(u) =>
           LET r == players[u]
               q == players'[u]
           IN /\ q.discard # r.discard => NeedsReshuffle(r)
              /\ NeedsReshuffle(r) =>
                    /\ q.discard = << >>
                    /\ Len(q.hand) = Len(r.hand) + 1
                    /\ IsPrefix(r.hand, q.hand)
                    /\ SameCards(Append(q.deck, q.hand[Len(q.hand)]), r.discard)
              /\ ~NeedsReshuffle(r) =>
                    /\ q.discard = r.discard
                    /\ r.deck = << >> => q = r
                    /\ r.deck # << >> =>
                          /\ q.hand = Append(r.hand, r.deck[Len(r.deck)])
                          /\ q.deck = SubSeq(r.deck, 1, Len(r.deck) - 1) ]_vars

\* player 1 drew from an empty deck with five cards in the discard: four of the
\* five are the deck, the fifth is the last card of the hand
C19_DiscardBecameDeck ==
    /\ exists /\ round_number = 1
    /\ players[1].discard = << >>
    /\ Len(players[1].deck) = 4 /\ players[1].hand # << >>
    /\ SameCards(Append(players[1].deck, players[1].hand[Len(players[1].hand)]), DiscardSource)

\* the reshuffles of a draw_cards(r, n) call
RECURSIVE Reshuffles(_, _, _)
Reshuffles(r, n, sd) ==
    IF n <= 0 THEN 0
    ELSE (IF NeedsReshuffle(r) THEN 1 ELSE 0) + Reshuffles(draw_one(r, sd), n - 1, sd)

\* C20: draw_cards(p, n) adds exactly min(n, |deck| + |discard|) cards behind
\* the cards of the hand, loses and makes no card, reshuffles at most once, and
\* only when the deck holds fewer than n cards, and ends without error with
\* both piles empty when they hold fewer than n cards. With 3 cards in the deck,
\* 5 in the discard and an empty hand, draw_cards(p, 6) leaves 6 cards in the
\* hand, 2 in the deck and none in the discard after exactly one reshuffle.
C20_DrawIsBestEffort ==
    [][ \A u \in Drawers : \A n \in 0..MaxDraw : DrawCards(u, n) =>
           LET r == players[u]
               q == players'[u]
               piles == Len(r.deck) + Len(r.discard)
               shuffles == Reshuffles(r, n, seed)
           IN /\ Len(q.hand) = Len(r.hand) + Min(n, piles)
              /\ IsPrefix(r.hand, q.hand)
              /\ SameCards(AllCards(q), AllCards(r))
              /\ shuffles <= 1
              /\ Len(r.deck) >= n => (shuffles = 0 /\ q.discard = r.discard)
              /\ piles <= n => (q.deck = << >> /\ q.discard = << >>)
              /\ (Len(r.deck) = 3 /\ Len(r.discard) = 5 /\ r.hand = << >> /\ n = 6) =>
                    /\ Len(q.hand) = 6 /\ Len(q.deck) = 2 /\ q.discard = << >>
                    /\ shuffles = 1 ]_vars

\* player 1 drew 6 cards with an empty hand, the 3 cards of DeckSource in the
\* deck and the 5 of DiscardSource in the discard
C20_SixDrawnAcrossReshuffle ==
    /\ exists /\ round_number = 1
    /\ Len(players[1].hand) = 6 /\ Len(players[1].deck) = 2 /\ players[1].discard = << >>
    /\ SubSeq(players[1].hand, 1, 3) = << "SURVIVE", "BASE_VOTE", "BLOCK_1" >>
    /\ SameCards(players[1].deck \o SubSeq(players[1].hand, 4, 6), DiscardSource)

\* pile t is pile s with the card at one position, which held old, replaced by new
OneReplaced(s, t, old, new) ==
    /\ Len(t) = Len(s)
    /\ \E i \in 1..Len(s) :
          /\ s[i] = old /\ t[i] = new
          /\ \A j \in 1..Len(s) : j # i => t[j] = s[j]

\* C21: an upgrade by a camp pick or by /upgrade N replaces exactly one card by
\* its UPGRADE_MAP target at the same position, in the deck if the card is
\* there and in the discard otherwise; the length of that pile, every other
\* card, the other pile and the hand stay as they were; a card without an
\* UPGRADE_MAP entry is not upgraded.
C21_UpgradeReplacesOneCard ==
    [][ /\ \A k \in campPicks : \A cid \in k.cards :
              (camp_pick(k, cid) /\ k.kind = "upgrade" /\ players' # players) =>
                 LET r == players[k.player_id]
                     q == players'[k.player_id]
                 IN /\ cid \in DOMAIN UPGRADE_MAP
                    /\ q.hand = r.hand
                    /\ IF Contains(r.deck, cid)
                       THEN q.discard = r.discard /\ OneReplaced(r.deck, q.deck, cid, UPGRADE_MAP[cid])
                       ELSE q.deck = r.deck /\ OneReplaced(r.discard, q.discard, cid, UPGRADE_MAP[cid])
                    /\ \A v \in Joined \ {k.player_id} : players'[v] = players[v]
        /\ \A u \in Joined : \A n \in 1..Len(players[u].deck) :
              upgrade_cmd(u, n) =>
                 LET r == players[u]
                     q == players'[u]
                 IN /\ r.deck[n] \in DOMAIN UPGRADE_MAP
                    /\ q.deck = [r.deck EXCEPT ![n] = UPGRADE_MAP[r.deck[n]]]
                    /\ q.discard = r.discard /\ q.hand = r.hand ]_vars

\* player 1 upgraded at the camp a BASE_VOTE that was only in the discard, at
\* its second position
C21_UpgradedInDiscard ==
    /\ exists /\ players[1].camp_done
    /\ ~Contains(players[1].deck, "BASE_VOTE") /\ ~Contains(players[1].deck, "BASE_VOTE_UG")
    /\ Len(players[1].discard) >= 2 /\ players[1].discard[2] = "BASE_VOTE_UG"

\* pile t is pile s without one card old, the others in place
OneRemoved(s, t, old) ==
    \E i \in 1..Len(s) :
       /\ s[i] = old
       /\ t = SubSeq(s, 1, i - 1) \o SubSeq(s, i + 1, Len(s))

\* C22: a camp remove deletes exactly one instance of the chosen card, from
\* the deck if it is there and from the discard otherwise: that pile gets
\* shorter by one, its other cards, the other pile and the hand stay; a card
\* that is in neither pile is not removed, and then deck, discard, hand and
\* camp_done are as before.
C22_RemoveDeletesOneCard ==
    [][ \A k \in campPicks : \A cid \in k.cards :
           (camp_pick(k, cid) /\ k.kind = "remove" /\ players' # players) =>
              LET r == players[k.player_id]
                  q == players'[k.player_id]
              IN /\ Contains(r.deck, cid) \/ Contains(r.discard, cid)
                 /\ q.hand = r.hand
                 /\ IF Contains(r.deck, cid)
                    THEN q.discard = r.discard /\ OneRemoved(r.deck, q.deck, cid)
                    ELSE q.deck = r.deck /\ OneRemoved(r.discard, q.discard, cid)
                 /\ \A v \in Joined \ {k.player_id} : players'[v] = players[v] ]_vars

\* player 1 removed at the camp a BASE_VOTE that was in the discard only: the
\* first of the two is gone
C22_RemovedFromDiscard ==
    /\ exists /\ players[1].camp_done
    /\ ~Contains(players[1].deck, "BASE_VOTE")
    /\ players[1].discard = << "WEAKEN", "ASSIST_ALLY", "BLOCK_ALLY", "BASE_VOTE" >>

\* C23: a camp pick (upgrade or remove) of a player whose camp_done is set, or
\* made while the phase is not camp, is rejected: it changes neither the deck
\* nor the discard of the player.
C23_OneCampEditInCampPhase ==
    [][ \A k \in campPicks : \A cid \in k.cards :
           ( /\ camp_pick(k, cid)
             /\ k.player_id \in Joined
             /\ phase # "camp" \/ players[k.player_id].camp_done )
           => /\ players'[k.player_id].deck = players[k.player_id].deck
              /\ players'[k.player_id].discard = players[k.player_id].discard ]_vars

\* C24: a draft pick adds the pressed card to the end of the player's deck
\* only if the card is in the player's current offer, and uses the offer up; a
\* pick of a card that is not in the current offer, which is every pick after a
\* pick or a skip on that offer, leaves every deck unchanged; a skip adds no
\* card and uses the offer up. So each offer adds at most one card, one of its own.
C24_OneOfferedCardPerOffer ==
    [][ /\ \A k \in rewardMsgs : \A cid \in k.offers :
              reward_pick(k, cid) =>
                 LET u == k.player_id
                 IN IF u \in Joined /\ cid \in reward_offers[u]
                    THEN /\ players'[u].deck = Append(players[u].deck, cid)
                         /\ reward_offers'[u] = {}
                         /\ \A v \in Joined \ {u} : players'[v] = players[v]
                    ELSE players' = players
        /\ \A k \in rewardMsgs :
              reward_skip(k) =>
                 /\ \A v \in Joined : players'[v].deck = players[v].deck
                 /\ reward_offers'[k.player_id] = {}
        /\ (\E k \in rewardMsgs : reward_skip(k) \/ \E cid \in k.offers : reward_pick(k, cid)) =>
              \A v \in Joined :
                 players'[v].deck # players[v].deck =>
                    /\ Len(players'[v].deck) = Len(players[v].deck) + 1
                    /\ players'[v].deck[Len(players'[v].deck)] \in reward_offers[v]
                    /\ reward_offers'[v] = {} ]_vars

\* player 1 took PROTECTION on the earlier of two draft keyboards: the offer
\* is used up while the later keyboard is still displayed
C24_PickedWithKeyboardLeft ==
    /\ exists /\ players[1].draft_done /\ reward_offers[1] = {}
    /\ players[1].deck # << >> /\ players[1].deck[Len(players[1].deck)] = "PROTECTION"
    /\ [ player_id |-> 1, offers |-> LastOffer ] \in rewardMsgs

\* the cards that give their block to the player the Action names
GrantsBlockToTarget == { "BLOCK_ALLY", "PROTECTION" }

BlockAmount(c) == IF c = "BLOCK_ALLY" THEN 1 ELSE BLOCK_CARDS_SIMPLE[c]

\* C25: when /resolve tallies the log, the block of BLOCK_ALLY and of the
\* target-mode "any" block card PROTECTION, played on another player, is added
\* to blocks_on of the Action's target and not to blocks_on of its source.
C25_BlockGoesToTarget ==
    [][ (\E a \in Users : resolve(a)) =>
           \A i \in 1..Len(actions) :
              ( /\ actions[i].card_id \in GrantsBlockToTarget
                /\ actions[i].target_id # NoTarget
                /\ actions[i].target_id # actions[i].source_id )
              => /\ BlockAdd(actions[i], actions[i].target_id) = BlockAmount(actions[i].card_id)
                 /\ BlockAdd(actions[i], actions[i].source_id) = 0 ]_vars

\* the votes of the Actions of the log whose source is u
VotesFrom(log, u) ==
    SumLog(log, LAMBDA act, v : IF act.source_id = v /\ act.target_id # NoTarget
                                THEN VoteAdd(act, act.target_id) ELSE 0, u)

\* C26: a /resolve that tallies the log adds to every player's
\* votes_received_this_round the votes tallied onto the player (votes_on) and
\* to votes_cast_this_round the votes of the Actions the player is the source
\* of, for every vote-adding card, ASSIST_ALLY and ASSIST_ALLY_UG included.
C26_CountersMatchTally ==
    [][ (\E a \in Users : resolve(a)) =>
           \A u \in Joined :
              /\ players'[u].votes_received_this_round
                    = players[u].votes_received_this_round + votes_on(actions, u)
              /\ players'[u].votes_cast_this_round
                    = players[u].votes_cast_this_round + VotesFrom(actions, u) ]_vars


\* C27: a card whose cost is None (CURSE) is never played: no step appends an
\* Action whose card is unplayable, whichever keyboard the press came from.
C27_UnplayableNeverPlayed ==
    [][ Len(actions') > Len(actions) => ~CostIsNone(actions'[Len(actions')].card_id) ]_vars

\* C28: no Action of a card whose target mode is "other" is recorded with a
\* target equal to its source, whether the target came from the hand menu, a
\* target keyboard or the keyboard of an ASSIST_ALLY delegate.
C28_OtherCardNeverOnSelf ==
    [][ Len(actions') > Len(actions) =>
          LET act == actions'[Len(actions')]
          IN target_mode(act.card_id) = "other" => act.target_id # act.source_id ]_vars

\* C29: an eliminated player neither acts nor is targeted: whenever an Action
\* is appended to the log, its source is alive and its target is null or an
\* alive player; a press by or onto an eliminated player appends nothing.
C29_OnlyAlivePlayersInNewActions ==
    [][ Len(actions') > Len(actions) =>
          LET act == actions'[Len(actions')]
          IN /\ act.source_id \in Joined /\ players[act.source_id].alive
             /\ \/ act.target_id = NoTarget
                \/ act.target_id \in Joined /\ players[act.target_id].alive ]_vars

\* player 1 was eliminated by /resolve, then pressed the target keyboard that
\* was still displayed: the keyboard is gone and the log holds no Action of
\* player 1
C29_EliminatedSourceRefused ==
    /\ ~players[1].alive
    /\ pickers = {}
    /\ Len(players[1].hand) = BaseHand
    /\ actions # << >>
    /\ \A i \in 1..Len(actions) : actions[i].source_id # 1

\* C30: a draft offer is stale once the next round has begun: a pick pressed
\* in any phase other than "drafting" is refused and adds no card to a deck.
C30_StaleOfferRefused ==
    [][ (phase # "drafting" /\ \E k \in rewardMsgs : \E cid \in k.offers : reward_pick(k, cid))
          => \A u \in Joined : players'[u].deck = players[u].deck ]_vars

\* the presses of player u on a hand menu or on a target keyboard that the
\* handler accepts
PlayBy(u) ==
    \/ \E idx \in HandIndexes(u) : playcard_now(u, idx) \/ playcard_ask(u, idx)
    \/ \E k \in pickers : /\ k.player_id = u
                          /\ \E t \in k.targets : target_play(k, t) \/ target_assist(k, t)

\* C31: once a player's Done press has set turn_done, every later playcard or
\* target press of that player in the round is refused and leaves the action
\* log, the player's hand and the player's energy unchanged.
C31_NoPlayAfterDone ==
    [][ \A u \in Joined :
          (players[u].turn_done /\ PlayBy(u)) =>
             /\ actions' = actions
             /\ players'[u].hand = players[u].hand
             /\ players'[u].energy = players[u].energy ]_vars

\* the number of cards the rules text of card c draws and discards
TextDraws(c) ==
    CASE c = "BALANCE" -> 3
      [] c \in {"FLIP", "QUICK_DRAW"} -> 2
      [] c \in {"BACKPACK", "ESCAPE", "BRING_IT_ON"} -> 1
      [] OTHER -> 0

TextDiscards(c) == IF c \in {"BALANCE", "BACKPACK"} THEN 1 ELSE 0

TextCards == { "BALANCE", "BACKPACK", "ESCAPE", "BRING_IT_ON", "FLIP", "QUICK_DRAW" }

\* C32: one play of BALANCE, BACKPACK, ESCAPE, BRING_IT_ON, FLIP or QUICK_DRAW
\* draws exactly the number of cards of its rules text, capped by the cards in
\* deck and discard pile, and discards exactly the number of its rules text:
\* deck and discard pile together lose the cards drawn and gain the cards
\* discarded and the played card.
C32_DrawsAndDiscardsAsWritten ==
    [][ \A u \in Drawers : \A idx \in HandIndexes(u) :
          (playcard_now(u, idx) /\ players[u].hand[idx + 1] \in TextCards) =>
             LET r == players[u]
                 c == r.hand[idx + 1]
                 avail == Len(r.deck) + Len(r.discard)
             IN Len(players'[u].deck) + Len(players'[u].discard)
                   = avail - Min(TextDraws(c), avail) + TextDiscards(c) + 1 ]_vars

\* C33: an accepted play of the card at hand index i takes exactly that card
\* out of the hand and puts it on the discard pile once, also when its own
\* effect draws or randomly discards: over the play the player's cards (deck,
\* discard pile and hand together) stay the same cards, and a played card that
\* had no second copy in the hand is no longer in the hand.
C33_PlayedCardMovesOnce ==
    [][ \A u \in Drawers : \A idx \in HandIndexes(u) :
          playcard_now(u, idx) =>
             LET r == players[u]
                 c == r.hand[idx + 1]
             IN /\ SameCards(AllCards(players'[u]), AllCards(r))
                /\ (CardCount(AllCards(r), c) = 1 => CardCount(players'[u].hand, c) = 0) ]_vars

\* a /resolve of this round has already tallied a vote: /nextround sets the two
\* counters to 0 and only /resolve increases them
TalliedThisRound == \E u \in Joined : players[u].votes_cast_this_round > 0

\* C34: a round is resolved at most once: a further /resolve before the next
\* /nextround eliminates nobody and does not increase votes_cast_this_round or
\* votes_received_this_round again.
C34_RoundResolvedOnce ==
    [][ (TalliedThisRound /\ \E a \in Users : resolve(a)) =>
          \A u \in Joined :
             /\ players'[u].alive = players[u].alive
             /\ players'[u].votes_cast_this_round = players[u].votes_cast_this_round
             /\ players'[u].votes_received_this_round = players[u].votes_received_this_round ]_vars

\* C35: every Action was paid for: an Action recorded by a press on a target
\* keyboard is an Action of the card whose cost was debited when the keyboard
\* was shown, and the debit was made in the round of the press.
C35_RecordedCardWasPaid ==
    [][ \A k \in pickers : \A t \in k.targets :
          target_play(k, t) =>
             /\ actions'[Len(actions')].card_id = k.card
             /\ k.sent_at = refills ]_vars

\* C36: in every reachable state whose phase is "playing" at least two
\* players are alive.
C36_PlayingNeedsTwoAlive ==
    (exists /\ phase = "playing") => Cardinality(list_alive_players) >= 2

\* the third player was eliminated and the round goes on between the two left
C36_PlayingAfterElimination ==
    /\ exists /\ phase = "playing"
    /\ Cardinality(Joined) = 3
    /\ Cardinality(list_alive_players) = 2

\* the log with its Actions appended in the order f
Reordered(log, f) == [i \in 1..Len(log) |-> log[f[i]]]

\* what /resolve decides from the log: whether it tallies at all, the players
\* it eliminates, whether the game is over, and the counters it leaves
ResolveOutcome(log) ==
    IF log = << >> \/ VoteKeys(log) = {}
    THEN << FALSE, {}, FALSE, << >> >>
    ELSE << TRUE,
            elim_players(log),
            game_over(list_alive_players \ elim_players(log)),
            [u \in Joined |-> << Tallied(log)[u].votes_cast_this_round,
                                 Tallied(log)[u].votes_received_this_round >>] >>

\* C37: the outcome of /resolve (the eliminated players, the resulting phase
\* and every votes_cast / votes_received counter) depends only on the Actions
\* in the log, not on the order in which they were appended.
C37_OutcomeIgnoresOrder ==
    \A f \in Permutations(1..Len(actions)) :
        ResolveOutcome(Reordered(actions, f)) = ResolveOutcome(actions)

\* a player was voted on and blocked afterwards: the block that cancels the
\* vote was appended after it
C37_BlockAfterVote ==
    /\ Len(actions) = 2
    /\ \E t \in Joined : /\ VoteAdd(actions[1], t) > 0
                         /\ BlockAdd(actions[2], t) > 0
                         /\ actions[1].source_id # t

\* some player has final votes above 0 in the log of the open round
SomeFinalVote ==
    /\ RoundOpen
    /\ actions # << >>
    /\ \E pid \in VoteKeys(actions) : final_votes(actions)[pid] > 0

C39_NonHostCannotReplaceGame ==
    [][ \A u \in Users :
          (/\ newgame_again(u)
           /\ u # host
           /\ phase \in {"lobby", "playing", "drafting", "camp"}) =>
             /\ UNCHANGED << players, phase, host >>
             /\ registry' \subseteq DOMAIN players' ]_vars

====
